---------------------------- MODULE Spec2Model ----------------------------
(***************************************************************************)
(* Model of the alert overlay: AlertProvider.tsx (the controller, its      *)
(* state, its timers and its Animated value), alert.ts (the process-wide   *)
(* bridge) and alert-initializer.tsx (the registration effect).            *)
(*                                                                         *)
(* Everything runs on one JavaScript event loop, so every handler is one   *)
(* atomic action.  React applies the setAlertState updates a handler       *)
(* queued in the order it queued them; the model applies them in that      *)
(* order as the handler runs.                                              *)
(*                                                                         *)
(* Optional arguments are sequences: << >> is an omitted argument and      *)
(* <<v>> a given one.                                                      *)
(***************************************************************************)
EXTENDS Integers, Sequences, FiniteSets, TLC

VARIABLES alertState, animation, timers,
          globalShowAlert, globalShowConfirmAlert, globalShowDeleteConfirmation,
          events, lastShow, clock, calls, pressed, registration

vars == <<alertState, animation, timers,
          globalShowAlert, globalShowConfirmAlert, globalShowDeleteConfirmation,
          events, lastShow, clock, calls, pressed, registration>>

-----------------------------------------------------------------------------
(* Bounds of the model *)

\* most calls of the show* functions (of the hook or of the bridge) and of
\* the hooks in one run
MaxCalls == 2
\* the clock advances by at most this many milliseconds in one step
TickStep == 50
\* small steps are taken while something is due within this many milliseconds
FineWindow == 300
\* the time since the first call is tracked up to this many milliseconds
MaxClock == 3400

(* Program constants *)

\* duration of the in and out animations
AnimDuration == 300
\* showAlert's default duration
DefaultDuration == 3000

AlertTypes == {"success", "error", "info", "warning"}
DefaultType == "info"
\* (variant for C11) the controller's delete confirmation is a warning
DeleteType_Warning == "warning"
DeleteType == "info"

-----------------------------------------------------------------------------
(* Inputs *)

\* Button callbacks: cbCancel and cbOK are opaque caller code; raise is a
\* callback that itself raises an alert through the bridge (readme.md,
\* deleteItem); noop is the () => { } showDeleteConfirmation substitutes.
Noop == "noop"
RaisedMessage == "Item deleted successfully!"

Button(text, onPress, type) == [text |-> text, onPress |-> onPress, type |-> type]

CancelOK ==
    <<Button("Cancel", "cbCancel", "cancel"), Button("OK", "cbOK", "default")>>
DeleteOnly == <<Button("Delete", "raise", "destructive")>>

\* the arguments the callers pass: <<message, type, duration>>,
\* <<message, buttons, type>> and <<message, onConfirm, onCancel>>
ShowAlertArgs ==
    { <<"Saved", <<"success">>, <<100>>>>, <<"Loading", << >>, << >>>> }
ShowConfirmAlertArgs ==
    { <<"Proceed?", CancelOK, << >>>>, <<"Delete item?", DeleteOnly, <<"warning">>>> }
ShowDeleteConfirmationArgs ==
    { <<"Delete item?", "raise", << >>>>, <<"Delete item?", "cbOK", <<"cbCancel">>>> }

Undefined == [set |-> FALSE, list |-> << >>]
Some(list) == [set |-> TRUE, list |-> list]

Default(arg, dflt) == IF arg = << >> THEN dflt ELSE arg[1]

Min(a, b) == IF a < b THEN a ELSE b


-----------------------------------------------------------------------------
(* The controller: AlertProvider.tsx                                       *)
(*                                                                         *)
(* The operators below take and return a world w: the alert state (st),    *)
(* the Animated value's running animation (anim), the pending setTimeout   *)
(* callbacks (timers, the milliseconds each has left, soonest first) and   *)
(* the events the running handler has produced so far (ev).                *)

Ev(kind, args) == [ev |-> kind, args |-> args]

Emit(w, kind, args) == [w EXCEPT !.ev = Append(@, Ev(kind, args))]

\* useState's initial alert state
InitialAlertState ==
    [visible |-> FALSE, message |-> "", type |-> "info",
     buttons |-> Undefined, autoHide |-> TRUE]

\* useState(new Animated.Value(0)): no animation running
InitialAnimation ==
    [active |-> FALSE, toValue |-> 0, remaining |-> 0, onEnd |-> "none"]

\* (variant for C16) hiding also clears the content
setVisibleFalse_Clearing(w) ==
    [w EXCEPT !.st = [InitialAlertState EXCEPT !.visible = FALSE]]

\* (variant for C18) the callback of hide flips visible
setVisibleFalse_Toggle(w) == [w EXCEPT !.st.visible = ~@]

\* setAlertState(prev => ({ ...prev, visible: false }))
setVisibleFalse(w) == [w EXCEPT !.st.visible = FALSE]

\* (variant for C6) the end callback never runs
EndCallback_Dropped(w, onEnd) == w

\* (variant for C17) the end of the in-animation puts the alert on screen
EndCallback_Reveal(w, onEnd) ==
    IF onEnd = "hide" THEN setVisibleFalse(w) ELSE [w EXCEPT !.st.visible = TRUE]

\* The callback handed to start(): hideAlert's sets visible to false whatever
\* the result it is given (finished or not); the show* calls hand none.
EndCallback(w, onEnd) == IF onEnd = "hide" THEN setVisibleFalse(w) ELSE w

\* Animated.timing(animation, {toValue, duration: 300}).start(onEnd): an
\* animation still running on the same value is stopped first, which calls
\* its callback with finished = false; then the new one runs for 300 ms.
AnimatedStart(w, toValue, onEnd) ==
    LET stopped == IF w.anim.active THEN EndCallback(w, w.anim.onEnd) ELSE w
    IN  [stopped EXCEPT !.anim = [active |-> TRUE, toValue |-> toValue,
                                  remaining |-> AnimDuration, onEnd |-> onEnd]]

\* (variant for C5) hide without the out-animation
hideAlert_NoAnimation(w) == setVisibleFalse(Emit(w, "hide", << >>))

hideAlert(w) == AnimatedStart(Emit(w, "hide", << >>), 0, "hide")

\* timers with one more, due in d ms: after those due no later than it
RECURSIVE InsertTimer(_, _)
InsertTimer(ts, d) ==
    IF ts = << >> THEN <<d>>
    ELSE IF Head(ts) <= d THEN <<Head(ts)>> \o InsertTimer(Tail(ts), d)
    ELSE <<d>> \o ts

\* (variant for C13) a new timer replaces the pending ones
SetTimeout_Replacing(w, duration) == [w EXCEPT !.timers = <<duration>>]

\* setTimeout(() => { hideAlert(); }, duration)
SetTimeout(w, duration) == [w EXCEPT !.timers = InsertTimer(@, duration)]

\* (variant for C12) showAlert leaves the buttons as they are
showAlert_KeepButtons(w, message, typeArg, durationArg) ==
    LET type == Default(typeArg, DefaultType)
        duration == Default(durationArg, DefaultDuration)
        w0 == Emit(w, "showAlert", <<message, type, duration>>)
        w1 == [w0 EXCEPT !.st = [visible |-> TRUE, message |-> message,
                                 type |-> type, buttons |-> w.st.buttons,
                                 autoHide |-> TRUE]]
        w2 == AnimatedStart(w1, 1, "none")
    IN  SetTimeout(w2, duration)

showAlert(w, message, typeArg, durationArg) ==
    LET type == Default(typeArg, DefaultType)
        duration == Default(durationArg, DefaultDuration)
        w0 == Emit(w, "showAlert", <<message, type, duration>>)
        w1 == [w0 EXCEPT !.st = [visible |-> TRUE, message |-> message,
                                 type |-> type, buttons |-> Undefined,
                                 autoHide |-> TRUE]]
        w2 == AnimatedStart(w1, 1, "none")
    IN  SetTimeout(w2, duration)

showConfirmAlert(w, message, buttons, typeArg) ==
    LET type == Default(typeArg, DefaultType)
        w0 == Emit(w, "showConfirmAlert", <<message, buttons, type>>)
        w1 == [w0 EXCEPT !.st = [visible |-> TRUE, message |-> message,
                                 type |-> type, buttons |-> Some(buttons),
                                 autoHide |-> FALSE]]
    IN  AnimatedStart(w1, 1, "none")

\* the two buttons of a delete confirmation: onCancel || (() => { })
DeleteButtons(onConfirm, onCancelArg) ==
    <<Button("Cancel", Default(onCancelArg, Noop), "cancel"),
      Button("Delete", onConfirm, "destructive")>>

showDeleteConfirmation(w, message, onConfirm, onCancelArg) ==
    showConfirmAlert(Emit(w, "showDeleteConfirmation", <<message, onConfirm, onCancelArg>>),
                     message, DeleteButtons(onConfirm, onCancelArg), <<DeleteType>>)

-----------------------------------------------------------------------------
(* The bridge: alert.ts.  A slot is "null" (never set), "undefined" (set   *)
(* from a missing argument) or "ctrl" (the controller's function).         *)

Registered(slot) == slot = "ctrl"

\* (variant for C20) registering over a registration clears the slots
setGlobalShowAlert_Toggle(showAlertFn, showConfirmAlertFn, showDeleteConfirmationFn) ==
    IF globalShowAlert = "null"
    THEN <<showAlertFn, showConfirmAlertFn, showDeleteConfirmationFn>>
    ELSE <<"null", "null", "null">>

\* setGlobalShowAlert's three assignments, as the new values of the slots
setGlobalShowAlert(showAlertFn, showConfirmAlertFn, showDeleteConfirmationFn) ==
    <<showAlertFn, showConfirmAlertFn, showDeleteConfirmationFn>>

NotInitialized == "Alert system not initialized yet."

alert_showAlert(w, message, typeArg, durationArg) ==
    IF Registered(globalShowAlert)
    THEN showAlert(w, message, <<Default(typeArg, "info")>>,
                   <<Default(durationArg, 3000)>>)
    ELSE Emit(w, "warn", <<NotInitialized>>)

\* (variant for C10) the bridge defaults the type to warning
alert_showConfirmAlert_Warning(w, message, buttons, typeArg) ==
    IF Registered(globalShowConfirmAlert)
    THEN showConfirmAlert(w, message, buttons, <<Default(typeArg, "warning")>>)
    ELSE Emit(w, "warn", <<NotInitialized>>)

alert_showConfirmAlert(w, message, buttons, typeArg) ==
    IF Registered(globalShowConfirmAlert)
    THEN showConfirmAlert(w, message, buttons, <<Default(typeArg, "info")>>)
    ELSE Emit(w, "warn", <<NotInitialized>>)

\* (variant for C9) the fallback calls the controller, registered or not
alert_showDeleteConfirmation_Direct(w, message, onConfirm, onCancelArg) ==
    IF Registered(globalShowDeleteConfirmation)
    THEN showDeleteConfirmation(w, message, onConfirm, onCancelArg)
    ELSE showConfirmAlert(w, message, DeleteButtons(onConfirm, onCancelArg), <<"info">>)

alert_showDeleteConfirmation(w, message, onConfirm, onCancelArg) ==
    IF Registered(globalShowDeleteConfirmation)
    THEN showDeleteConfirmation(w, message, onConfirm, onCancelArg)
    ELSE alert_showConfirmAlert(w, message, DeleteButtons(onConfirm, onCancelArg),
                                <<"info">>)

-----------------------------------------------------------------------------
(* A button of the displayed alert *)

\* button.onPress(): the caller's callback
RunCallback(w, i, cb) ==
    LET w0 == Emit(w, "action", <<i, cb>>)
    IN  IF cb = "raise"
        THEN alert_showAlert(w0, RaisedMessage, <<"success">>, << >>)
        ELSE w0

\* (variant for C7) onClose() before button.onPress()
onPress_HideFirst(w, i) == RunCallback(hideAlert(w), i, w.st.buttons.list[i].onPress)

\* onPress={() => { button.onPress(); onClose(); }} of the i-th button of
\* the alert as rendered from w.st
onPress(w, i) == hideAlert(RunCallback(w, i, w.st.buttons.list[i].onPress))

-----------------------------------------------------------------------------
(* The hooks: a component obtains the controller.  `context` is what      *)
(* useContext(AlertContext) gives where the component is rendered: "ctrl" *)
(* (the Provider's value) under an AlertProvider, "undefined" elsewhere.  *)

Contexts == {"ctrl", "undefined"}

UseAlertError == "useAlert must be used within an AlertProvider"

\* (variant for C21) useAlert returns the context without looking at it
useAlert_Unchecked(w, context) == Emit(w, "return", <<context>>)

\* if (!context) throw new Error(...); return context
useAlert(w, context) ==
    IF context = "undefined"
    THEN Emit(w, "throw", <<UseAlertError>>)
    ELSE Emit(w, "return", <<context>>)

\* the hook has thrown: its caller does not go on
Thrown(w) == w.ev # << >> /\ w.ev[Len(w.ev)].ev = "throw"

\* const { showAlert, ... } = useAlert(); return { showAlert, ... }: the
\* three functions of the controller again, unless useAlert has thrown
useShowAlert(w, context) ==
    LET w1 == useAlert(w, context)
    IN  IF Thrown(w1) THEN w1
        ELSE [w1 EXCEPT !.ev = Append(SubSeq(@, 1, Len(@) - 1),
                                      Ev("return", w1.ev[Len(w1.ev)].args))]

Hooks == {"useAlert", "useShowAlert"}

\* what the hook does in world w where the context is `context`
HookCall(w, hook, context) ==
    IF hook = "useAlert" THEN useAlert(w, context) ELSE useShowAlert(w, context)

-----------------------------------------------------------------------------
(* The state machine *)

World == [st |-> alertState, anim |-> animation, timers |-> timers, ev |-> << >>]

\* the world as a handler entered by `kind` finds it
Enter(kind, args) == Emit(World, kind, args)

ShowKinds == {"showAlert", "showConfirmAlert"}

\* the controller's show* calls among the events, in order
ShowsIn(ev) == SelectSeq(ev, LAMBDA e : e.ev \in ShowKinds)

\* The handler's result becomes the state.  events, lastShow, calls, clock
\* and pressed record the run: the events of the last step, the last show*
\* the controller executed, the number of show* calls made so far, the time
\* since the first of them, which is -1 before it and again from the
\* second call or the first button press on, and whether a button of the
\* alert that lastShow raised has been pressed.  `step` is "call" (a show*
\* call), "use" (a call of a hook, counted with the calls), "press" (a
\* button press) or "other".
Commit(w, step) ==
    /\ alertState' = w.st
    /\ animation' = w.anim
    /\ timers' = w.timers
    /\ events' = w.ev
    /\ lastShow' = IF ShowsIn(w.ev) = << >> THEN lastShow
                   ELSE ShowsIn(w.ev)[Len(ShowsIn(w.ev))]
    /\ calls' = IF step \in {"call", "use"} THEN calls + 1 ELSE calls
    /\ clock' = IF step = "call" THEN (IF calls = 0 THEN 0 ELSE -1)
                ELSE IF step = "press" THEN -1 ELSE clock
    /\ pressed' = IF ShowsIn(w.ev) # << >> THEN FALSE
                  ELSE IF step = "press" THEN TRUE ELSE pressed

\* the slots of the bridge stay as they are; registration records whether
\* setGlobalShowAlert has run never, once or again
BridgeUnchanged ==
    UNCHANGED <<globalShowAlert, globalShowConfirmAlert, globalShowDeleteConfirmation,
                registration>>

Init ==
    /\ alertState = InitialAlertState
    /\ animation = InitialAnimation
    /\ timers = << >>
    /\ globalShowAlert = "null"
    /\ globalShowConfirmAlert = "null"
    /\ globalShowDeleteConfirmation = "null"
    /\ events = << >>
    /\ lastShow = Ev("none", << >>)
    /\ clock = -1
    /\ calls = 0
    /\ pressed = FALSE
    /\ registration = "never"

\* a component calls the controller's function it got from useAlert()
HookShowAlert ==
    \E a \in ShowAlertArgs :
        LET w == showAlert(Enter("call", <<"hook", "showAlert", a>>), a[1], a[2], a[3])
        IN  /\ calls < MaxCalls
            /\ Commit(w, "call")
            /\ BridgeUnchanged

HookShowConfirmAlert ==
    \E a \in ShowConfirmAlertArgs :
        LET w == showConfirmAlert(Enter("call", <<"hook", "showConfirmAlert", a>>),
                                  a[1], a[2], a[3])
        IN  /\ calls < MaxCalls
            /\ Commit(w, "call")
            /\ BridgeUnchanged

HookShowDeleteConfirmation ==
    \E a \in ShowDeleteConfirmationArgs :
        LET w == showDeleteConfirmation(
                     Enter("call", <<"hook", "showDeleteConfirmation", a>>), a[1], a[2], a[3])
        IN  /\ calls < MaxCalls
            /\ Commit(w, "call")
            /\ BridgeUnchanged

\* any code calls the free function of alert.ts
BridgeShowAlert ==
    \E a \in ShowAlertArgs :
        LET w == alert_showAlert(Enter("call", <<"bridge", "showAlert", a>>),
                                 a[1], a[2], a[3])
        IN  /\ calls < MaxCalls
            /\ Commit(w, "call")
            /\ BridgeUnchanged

BridgeShowConfirmAlert ==
    \E a \in ShowConfirmAlertArgs :
        LET w == alert_showConfirmAlert(
                     Enter("call", <<"bridge", "showConfirmAlert", a>>), a[1], a[2], a[3])
        IN  /\ calls < MaxCalls
            /\ Commit(w, "call")
            /\ BridgeUnchanged

BridgeShowDeleteConfirmation ==
    \E a \in ShowDeleteConfirmationArgs :
        LET w == alert_showDeleteConfirmation(
                     Enter("call", <<"bridge", "showDeleteConfirmation", a>>),
                     a[1], a[2], a[3])
        IN  /\ calls < MaxCalls
            /\ Commit(w, "call")
            /\ BridgeUnchanged

\* (variant for C19) the buttons of the state take presses while hidden
PressButton_Always ==
    /\ alertState.buttons.set
    /\ \E i \in 1..Len(alertState.buttons.list) :
        LET w == onPress(Enter("press", <<i>>), i)
        IN  Commit(w, "press")
    /\ BridgeUnchanged

\* the user presses the i-th button of the alert on screen
PressButton ==
    /\ alertState.visible
    /\ alertState.buttons.set
    /\ \E i \in 1..Len(alertState.buttons.list) :
        LET w == onPress(Enter("press", <<i>>), i)
        IN  Commit(w, "press")
    /\ BridgeUnchanged

\* the soonest setTimeout callback is due and runs: () => { hideAlert(); }
TimerFire ==
    /\ timers # << >>
    /\ Head(timers) = 0
    /\ Commit(hideAlert([Enter("timer", << >>) EXCEPT !.timers = Tail(@)]), "other")
    /\ BridgeUnchanged

\* the running animation reaches its end and calls its callback (finished)
AnimationEnd ==
    /\ animation.active
    /\ animation.remaining = 0
    /\ Commit(EndCallback([Enter("animationEnd", << >>)
                              EXCEPT !.anim.active = FALSE], animation.onEnd), "other")
    /\ BridgeUnchanged

\* a component, rendered under an AlertProvider or not, calls a hook
UseHook ==
    \E hook \in Hooks : \E context \in Contexts :
        /\ calls < MaxCalls
        /\ Commit(HookCall(Enter("use", <<hook, context>>), hook, context), "use")
        /\ BridgeUnchanged

\* AlertInitializer's effect: setGlobalShowAlert(showAlert, showConfirmAlert)
Register ==
    /\ LET slots == setGlobalShowAlert("ctrl", "ctrl", "undefined")
       IN  /\ globalShowAlert' = slots[1]
           /\ globalShowConfirmAlert' = slots[2]
           /\ globalShowDeleteConfirmation' = slots[3]
    /\ registration' = IF registration = "never" THEN "once" ELSE "again"
    /\ Commit(Enter("register", << >>), "other")

\* what is left before each pending timer or the running animation is due
Pending ==
    {timers[k] : k \in 1..Len(timers)}
        \cup (IF animation.active THEN {animation.remaining} ELSE {})

\* how far the clock may advance in one step: to the next thing due, or by
\* TickStep while something is due within FineWindow (or nothing is pending)
Advances ==
    IF Pending = {} THEN {TickStep}
    ELSE LET due == CHOOSE r \in Pending : \A q \in Pending : r <= q
         IN  {due} \cup (IF due <= FineWindow /\ TickStep < due THEN {TickStep} ELSE {})

\* time passes: every pending timer and the running animation get closer
Tick ==
    \E dt \in Advances :
        /\ dt > 0
        /\ alertState' = alertState
        /\ animation' = IF animation.active
                        THEN [animation EXCEPT !.remaining = @ - dt] ELSE animation
        /\ timers' = [k \in 1..Len(timers) |-> timers[k] - dt]
        /\ events' = <<Ev("tick", <<dt>>)>>
        /\ clock' = IF clock >= 0 THEN Min(clock + dt, MaxClock) ELSE clock
        /\ UNCHANGED <<lastShow, calls, pressed>>
        /\ BridgeUnchanged

Next ==
    \/ HookShowAlert
    \/ HookShowConfirmAlert
    \/ HookShowDeleteConfirmation
    \/ BridgeShowAlert
    \/ BridgeShowConfirmAlert
    \/ BridgeShowDeleteConfirmation
    \/ PressButton
    \/ TimerFire
    \/ AnimationEnd
    \/ Register
    \/ UseHook
    \/ Tick

Spec == Init /\ [][Next]_vars

\* The event loop runs a callback that is due, and time passes.
FairSpec ==
    Spec /\ WF_vars(Tick) /\ WF_vars(TimerFire) /\ WF_vars(AnimationEnd)

-----------------------------------------------------------------------------
(* Reading the record of a step *)

\* the events of one kind among ev, in order
EventsOf(ev, kind) == SelectSeq(ev, LAMBDA e : e.ev = kind)

\* ev is the record of a step of this kind
StepOf(ev, kind) == ev # << >> /\ ev[1].ev = kind

\* ev is the record of a call of fn through via ("hook" or "bridge")
CallOf(ev, via, fn) ==
    StepOf(ev, "call") /\ ev[1].args[1] = via /\ ev[1].args[2] = fn

\* the arguments of the call ev records
CallArgs(ev) == ev[1].args[3]

\* the out-animation is running: hide has begun and has not ended
Hiding == animation.active /\ animation.onEnd = "hide"

-----------------------------------------------------------------------------
(* C1 *)

\* C1 (as claimed): no timer firing starts the hide of a displayed alert
\* whose autoHide is false.
C1_NoTimerHidesConfirm ==
    [][ (StepOf(events', "timer") /\ alertState.visible /\ ~alertState.autoHide)
            => EventsOf(events', "hide") = << >> ]_vars

-----------------------------------------------------------------------------
(* C2 *)

\* the alert on record as the last one shown is the one a button callback
\* raised, and the timer that showAlert call set is still pending
RaisedPending ==
    /\ lastShow = Ev("showAlert", <<RaisedMessage, "success", DefaultDuration>>)
    /\ timers # << >>

\* C2 (as claimed): an alert raised by a button's callback stays visible
\* until its own hide trigger: while its own auto-hide timer is pending it
\* is visible.
C2_RaisedAlertStays == RaisedPending => alertState.visible

-----------------------------------------------------------------------------
(* C3 *)

\* C3 (as claimed): right after every showAlert(m, t, d) the controller
\* executed, visible = true, message = m, type = t (info when omitted),
\* buttons are empty and autoHide = true.
C3_ShowAlertPost ==
    \A via \in {"hook", "bridge"} :
        (CallOf(events, via, "showAlert") /\ EventsOf(events, "showAlert") # << >>)
            => alertState = [visible |-> TRUE,
                             message |-> CallArgs(events)[1],
                             type |-> Default(CallArgs(events)[2], "info"),
                             buttons |-> Undefined,
                             autoHide |-> TRUE]

-----------------------------------------------------------------------------
(* C4 *)

\* C4 (as claimed): right after every showConfirmAlert(m, buttons, t) the
\* controller executed, visible = true, message = m, type = t (info when
\* omitted), the buttons are the given ones in the given order and
\* autoHide = false; and the call sets no timer.
C4_ShowConfirmAlertPost ==
    [][ \A via \in {"hook", "bridge"} :
          (CallOf(events', via, "showConfirmAlert")
              /\ EventsOf(events', "showConfirmAlert") # << >>)
            => /\ alertState' = [visible |-> TRUE,
                                 message |-> CallArgs(events')[1],
                                 type |-> Default(CallArgs(events')[3], "info"),
                                 buttons |-> Some(CallArgs(events')[2]),
                                 autoHide |-> FALSE]
               /\ timers' = timers ]_vars

-----------------------------------------------------------------------------
(* C5 *)

\* a showAlert is the only call made so far and no button has been pressed
SoleShowAlert == clock >= 0 /\ lastShow.ev = "showAlert"

\* the alert of the last show* is on screen as that call described it
Displayed ==
    /\ alertState.visible
    /\ alertState.message = lastShow.args[1]
    /\ alertState.type = lastShow.args[2]

\* C5 (as claimed): after showAlert(m, t, d) and no other call the alert is
\* visible with m and t at any time before d, and visible = false once d
\* has elapsed.
C5_HiddenAfterDuration ==
    SoleShowAlert =>
        /\ clock < lastShow.args[3] => Displayed
        /\ clock > lastShow.args[3] => ~alertState.visible

\* C5 (amended): after showAlert(m, t, d) and no other call the alert is
\* visible with m and t at any time before d + 300, the out-animation
\* running from d on, and visible = false once d + 300 has elapsed.
C5_HiddenAfterAnimation ==
    SoleShowAlert =>
        /\ clock < lastShow.args[3] + AnimDuration => Displayed
        /\ clock < lastShow.args[3] => ~Hiding
        /\ clock > lastShow.args[3] => (alertState.visible => Hiding)
        /\ clock > lastShow.args[3] + AnimDuration => ~alertState.visible

\* showAlert("Saved", "success", 100) alone: still visible 150 ms later
C5_WitnessAt150 ==
    /\ SoleShowAlert
    /\ lastShow.args = <<"Saved", "success", 100>>
    /\ clock = 150
    /\ Displayed
    /\ Hiding

-----------------------------------------------------------------------------
(* C6 *)

\* C6: once a showAlert has put its alert on screen, visible becomes false
\* unless a further show* call is made; and no step taken while a showAlert
\* is the last show* invokes a button action.
C6_AutoHides ==
    /\ (lastShow.ev = "showAlert" /\ alertState.visible)
           ~> (~alertState.visible \/ lastShow.ev # "showAlert")
    /\ [][ lastShow.ev = "showAlert" => EventsOf(events', "action") = << >> ]_vars

\* the alert of a showAlert has been hidden by its timer and out-animation
C6_WitnessHidden ==
    /\ lastShow.ev = "showAlert"
    /\ StepOf(events, "animationEnd")
    /\ ~alertState.visible
    /\ timers = << >>

-----------------------------------------------------------------------------
(* C7 *)

\* C7: a press of the i-th button of the displayed alert invokes that
\* button's action, then hide, each exactly once, the action first, and
\* no other action.
C7_PressActionThenHide ==
    [][ StepOf(events', "press") =>
          LET i == events'[1].args[1]
              actions == EventsOf(events', "action")
              hides == EventsOf(events', "hide")
          IN  /\ alertState.buttons.set
              /\ i \in 1..Len(alertState.buttons.list)
              /\ actions = <<Ev("action", <<i, alertState.buttons.list[i].onPress>>)>>
              /\ hides = <<Ev("hide", << >>)>>
              /\ events'[2] = actions[1]
              /\ events'[Len(events')] = hides[1] ]_vars

\* OK of Cancel/OK has been pressed: its action ran, then hide began
C7_WitnessPressed ==
    /\ events = <<Ev("press", <<2>>), Ev("action", <<2, "cbOK">>), Ev("hide", << >>)>>
    /\ Hiding

-----------------------------------------------------------------------------
(* C8 *)

\* C8 (as claimed): whenever visible = false no auto-hide timer is pending.
C8_NoTimerWhenHidden == ~alertState.visible => timers = << >>

-----------------------------------------------------------------------------
(* C9 *)

BridgeFunctions == {"showAlert", "showConfirmAlert", "showDeleteConfirmation"}

\* C9: a bridge call made before registration changes neither the alert
\* state, the animation nor the timers, invokes no controller function and
\* warns exactly once; and registering replays nothing.
C9_DroppedBeforeRegistration ==
    [][ /\ \A fn \in BridgeFunctions :
              (CallOf(events', "bridge", fn) /\ globalShowAlert = "null")
                  => /\ UNCHANGED <<alertState, animation, timers>>
                     /\ events' = <<events'[1], Ev("warn", <<NotInitialized>>)>>
        /\ StepOf(events', "register")
              => UNCHANGED <<alertState, animation, timers>> ]_vars

\* a bridge call was dropped, and the bridge has been registered since
C9_WitnessDropped ==
    /\ calls > 0
    /\ lastShow.ev = "none"
    /\ StepOf(events, "register")
    /\ Registered(globalShowAlert)

-----------------------------------------------------------------------------
(* C10 *)

\* what the controller's method fn does to world w when called with a
ControllerCall(w, fn, a) ==
    CASE fn = "showAlert" -> showAlert(w, a[1], a[2], a[3])
      [] fn = "showConfirmAlert" -> showConfirmAlert(w, a[1], a[2], a[3])
      [] fn = "showDeleteConfirmation" -> showDeleteConfirmation(w, a[1], a[2], a[3])

\* C10: once registered, a call of a bridge function leaves the alert
\* state, the animation and the timers as the controller's method of the
\* same name does when called with the same arguments.
C10_BridgeAsController ==
    [][ \A fn \in BridgeFunctions :
          (CallOf(events', "bridge", fn) /\ Registered(globalShowAlert))
              => LET w == ControllerCall(World, fn, CallArgs(events'))
                 IN  /\ alertState' = w.st
                     /\ animation' = w.anim
                     /\ timers' = w.timers ]_vars

\* the registered bridge's showDeleteConfirmation, called with onCancel
\* omitted, has raised the Cancel/Delete confirmation
C10_WitnessDelete ==
    /\ Registered(globalShowAlert)
    /\ CallOf(events, "bridge", "showDeleteConfirmation")
    /\ CallArgs(events)[3] = << >>
    /\ alertState.visible
    /\ alertState.buttons = Some(DeleteButtons("raise", << >>))

-----------------------------------------------------------------------------
(* C11 *)

\* the controller executed the show* call that ev records
Executed(ev) == StepOf(ev, "call") /\ ShowsIn(ev) # << >>

\* C11: showDeleteConfirmation(m, onConfirm, onCancel), of the controller
\* or of the bridge, does what showConfirmAlert(m, [Cancel (cancel,
\* onCancel or a no-op), Delete (destructive, onConfirm)], info) does.
C11_DeleteAsConfirm ==
    [][ \A via \in {"hook", "bridge"} :
          (CallOf(events', via, "showDeleteConfirmation") /\ Executed(events'))
            => LET a == CallArgs(events')
                   cancel == [text |-> "Cancel",
                              onPress |-> IF a[3] = << >> THEN "noop" ELSE a[3][1],
                              type |-> "cancel"]
                   delete == [text |-> "Delete", onPress |-> a[2],
                              type |-> "destructive"]
                   w == showConfirmAlert(World, a[1], <<cancel, delete>>, <<"info">>)
               IN  /\ alertState' = w.st
                   /\ animation' = w.anim
                   /\ timers' = w.timers ]_vars

\* the controller's showDeleteConfirmation, called with onCancel omitted,
\* has raised Cancel (a no-op) and Delete
C11_WitnessNoCancel ==
    /\ CallOf(events, "hook", "showDeleteConfirmation")
    /\ CallArgs(events)[3] = << >>
    /\ alertState.visible
    /\ alertState.type = "info"
    /\ Len(alertState.buttons.list) = 2
    /\ alertState.buttons.list[1].onPress = "noop"

-----------------------------------------------------------------------------
(* C12 *)

\* C12: the buttons are set exactly when the last show* the controller
\* executed is a showConfirmAlert (showDeleteConfirmation ends in one).
C12_ButtonsIffConfirm ==
    alertState.buttons.set <=> lastShow.ev = "showConfirmAlert"

\* a button of a confirmation raised a plain alert, which has no buttons
C12_WitnessOverwritten ==
    /\ StepOf(events, "press")
    /\ EventsOf(events, "showAlert") # << >>
    /\ ~alertState.buttons.set

-----------------------------------------------------------------------------
(* C13 *)

\* ts without its k-th element
Without(ts, k) == SubSeq(ts, 1, k - 1) \o SubSeq(ts, k + 1, Len(ts))

\* C13: a showAlert call adds its timer and leaves every pending timer
\* with the time it had left; and a timer that fires invokes hide whatever
\* alert is displayed.
C13_EarlierTimerKept ==
    [][ /\ \A via \in {"hook", "bridge"} :
              (CallOf(events', via, "showAlert") /\ Executed(events'))
                => \E k \in 1..Len(timers') :
                       /\ timers'[k] = Default(CallArgs(events')[3], 3000)
                       /\ Without(timers', k) = timers
        /\ StepOf(events', "timer")
              => /\ events' = <<Ev("timer", << >>), Ev("hide", << >>)>>
                 /\ animation' = [active |-> TRUE, toValue |-> 0,
                                  remaining |-> 300, onEnd |-> "hide"] ]_vars

\* "Loading" (3000 ms) was shown 50 ms after "Saved" (100 ms): the timer
\* of "Saved" has hidden it with 2650 ms of its own duration left
C13_WitnessEarlyHidden ==
    /\ lastShow = Ev("showAlert", <<"Loading", "info", 3000>>)
    /\ StepOf(events, "animationEnd")
    /\ ~alertState.visible
    /\ timers = <<2650>>

-----------------------------------------------------------------------------
(* C14 *)

\* C14 (as claimed): a show* call the controller executes while an
\* out-animation is in progress leaves the alert it raises visible: the
\* callback of that out-animation does not set visible = false for it.
C14_ShowNotUndone ==
    [][ (Executed(events') /\ Hiding) => alertState'.visible ]_vars

-----------------------------------------------------------------------------
(* C15 *)

\* C15 (as claimed): once a button of the raised alert has been pressed, no
\* further press of a button of that alert is accepted.
C15_OneActionPerAlert ==
    [][ StepOf(events', "press") => ~pressed ]_vars

-----------------------------------------------------------------------------
(* C16 *)

\* message, type, buttons and autoHide of a state
Content(st) ==
    [message |-> st.message, type |-> st.type,
     buttons |-> st.buttons, autoHide |-> st.autoHide]

\* the content that the show* call recorded in `show` asked for
ContentOf(show) ==
    IF show.ev = "showAlert"
    THEN [message |-> show.args[1], type |-> show.args[2],
          buttons |-> Undefined, autoHide |-> TRUE]
    ELSE IF show.ev = "showConfirmAlert"
    THEN [message |-> show.args[1], type |-> show.args[3],
          buttons |-> Some(show.args[2]), autoHide |-> FALSE]
    ELSE [message |-> "", type |-> "info", buttons |-> Undefined, autoHide |-> TRUE]

\* C16: a step in which the controller executes no show* (a timer firing,
\* an animation end, a hide by a button press, a registration) leaves
\* message, type, buttons and autoHide as they are, and in every state they
\* are those of the last show* executed, or the initial ones.
C16_OnlyVisibleChanges ==
    /\ [](Content(alertState) = ContentOf(lastShow))
    /\ [][ ShowsIn(events') = << >>
              => Content(alertState') = Content(alertState) ]_vars

\* the out-animation of a confirmation has ended: it is hidden, and its
\* message and buttons are still in the state
C16_WitnessStale ==
    /\ StepOf(events, "animationEnd")
    /\ ~alertState.visible
    /\ alertState.message = "Proceed?"
    /\ alertState.buttons = Some(CancelOK)
    /\ ~alertState.autoHide

-----------------------------------------------------------------------------
(* C17 *)

\* C17: visible goes from false to true only in a step that is a show*
\* call which the controller executes.
C17_OnlyShowReveals ==
    [][ (~alertState.visible /\ alertState'.visible) => Executed(events') ]_vars

\* the first show* call has taken the state out of Hidden
C17_WitnessRevealed ==
    /\ calls = 1
    /\ Executed(events)
    /\ lastShow.ev = "showConfirmAlert"
    /\ alertState.visible

-----------------------------------------------------------------------------
(* C18 *)

\* hide is invoked in the step that ev records, and no show* is executed
HideOnly(ev) == EventsOf(ev, "hide") # << >> /\ ShowsIn(ev) = << >>

\* C18: a hide invoked while the alert is hidden or being hidden (by a
\* button press or a timer, with no show* in the step) leaves the content
\* as it is, puts nothing on screen and leaves an out-animation running;
\* and the end of an out-animation always leaves visible = false with the
\* content as it is, which is where a single hide ends.
C18_HideIdempotent ==
    [][ /\ (HideOnly(events') /\ (~alertState.visible \/ Hiding))
              => /\ Content(alertState') = Content(alertState)
                 /\ alertState'.visible => alertState.visible
                 /\ animation' = [active |-> TRUE, toValue |-> 0,
                                  remaining |-> 300, onEnd |-> "hide"]
        /\ (StepOf(events', "animationEnd") /\ Hiding)
              => /\ ~alertState'.visible
                 /\ Content(alertState') = Content(alertState)
                 /\ ~animation'.active ]_vars

\* a button press has invoked hide during an out-animation: the state is
\* hidden, with the content in place, and a new out-animation runs
C18_WitnessHiddenAgain ==
    /\ StepOf(events, "press")
    /\ HideOnly(events)
    /\ ~alertState.visible
    /\ Hiding
    /\ animation.remaining = 300

-----------------------------------------------------------------------------
(* C19 *)

\* C19: a button action is invoked only in a step that starts with the
\* alert visible, and it is the action of a button of the state's buttons.
C19_ActionOnlyOfDisplayed ==
    [][ \A k \in 1..Len(events') :
          events'[k].ev = "action"
            => /\ alertState.visible
               /\ alertState.buttons.set
               /\ \E i \in 1..Len(alertState.buttons.list) :
                      events'[k].args = <<i, alertState.buttons.list[i].onPress>> ]_vars

\* a delete confirmation was the second call, and its Delete has been
\* pressed: the action is its onConfirm
C19_WitnessDeletePressed ==
    /\ calls = 2
    /\ StepOf(events, "press")
    /\ events[2] = Ev("action", <<2, "cbOK">>)
    /\ alertState.message = "Delete item?"
    /\ alertState.buttons.list[2].text = "Delete"

-----------------------------------------------------------------------------
(* C20 *)

\* what the bridge's function fn does to world w when called with a
BridgeCall(w, fn, a) ==
    CASE fn = "showAlert" -> alert_showAlert(w, a[1], a[2], a[3])
      [] fn = "showConfirmAlert" -> alert_showConfirmAlert(w, a[1], a[2], a[3])
      [] fn = "showDeleteConfirmation" -> alert_showDeleteConfirmation(w, a[1], a[2], a[3])

\* the arguments the callers pass to fn
ArgsOf(fn) ==
    CASE fn = "showAlert" -> ShowAlertArgs
      [] fn = "showConfirmAlert" -> ShowConfirmAlertArgs
      [] fn = "showDeleteConfirmation" -> ShowDeleteConfirmationArgs

\* C20: a registration made after the first one leaves the slots of the
\* bridge, the alert state, the animation and the timers as they are, and
\* each of the three bridge functions does afterwards what it did before.
C20_RegistrationIdempotent ==
    [][ (StepOf(events', "register") /\ registration # "never")
          => /\ UNCHANGED <<globalShowAlert, globalShowConfirmAlert,
                            globalShowDeleteConfirmation>>
             /\ UNCHANGED <<alertState, animation, timers>>
             /\ \A fn \in BridgeFunctions : \A a \in ArgsOf(fn) :
                    BridgeCall(World, fn, a)' = BridgeCall(World, fn, a) ]_vars

\* the controller's functions have been registered again, with an alert
\* on screen
C20_WitnessAgain ==
    /\ StepOf(events, "register")
    /\ registration = "again"
    /\ globalShowAlert = "ctrl"
    /\ globalShowConfirmAlert = "ctrl"
    /\ globalShowDeleteConfirmation = "undefined"
    /\ alertState.visible

-----------------------------------------------------------------------------
(* C21 *)

\* C21 (as claimed): no operation signals an error to its caller: no step
\* of any kind ends in a throw.
C21_NoErrorSignalled ==
    \A k \in 1..Len(events) : events[k].ev # "throw"

\* C21 (amended): a hook called where there is no AlertProvider throws
\* 'useAlert must be used within an AlertProvider', and a hook called under
\* one returns the controller; no other step throws, and the only other
\* failure is the 'not initialized' warning of a bridge whose slots are
\* not registered.
C21_ThrowsOnlyOutsideProvider ==
    /\ StepOf(events, "use")
          => events = <<events[1],
                        IF events[1].args[2] = "undefined"
                        THEN Ev("throw", <<"useAlert must be used within an AlertProvider">>)
                        ELSE Ev("return", <<"ctrl">>)>>
    /\ ~StepOf(events, "use")
          => \A k \in 1..Len(events) : events[k].ev # "throw"
    /\ \A k \in 1..Len(events) :
          events[k].ev = "warn"
            => /\ events[k].args = <<"Alert system not initialized yet.">>
               /\ globalShowAlert # "ctrl"
               /\ (StepOf(events, "call") \/ StepOf(events, "press"))

\* useShowAlert has been called outside a provider, while the provider's
\* alert is on screen: the call has thrown
C21_WitnessThrown ==
    /\ events = <<Ev("use", <<"useShowAlert", "undefined">>),
                  Ev("throw", <<UseAlertError>>)>>
    /\ alertState.visible

=============================================================================
